---- MODULE Spec2Model ----
(***************************************************************************)
(* A model of bot.py, the Telegram to-do bot: the text classifier, the     *)
(* task table, the display-number ordering, the completion update, the     *)
(* job registry and the midnight window.                                   *)
(*                                                                         *)
(* Text.  A message text is a sequence of atoms.  An atom is a whitespace  *)
(* character (" " or "\t") or an indivisible piece of a word: the four     *)
(* section keywords, the list-command words, the two completion verbs, a   *)
(* decimal digit, or the filler "a".  A word is a maximal run of           *)
(* non-whitespace atoms, so <<"a", "Urgent">> is the single word aUrgent   *)
(* and is no keyword.  The Hebrew literals of the source are written in    *)
(* English: Urgent, Today, Tomorrow, General, list, show, see, display,    *)
(* finish, finished.                                                       *)
(*                                                                         *)
(* Time.  An instant is a number of ticks, TicksPerSecond to the second,   *)
(* counted from local midnight of the Sunday on which Asia/Jerusalem       *)
(* leaves daylight saving time: at 02:00 IDT the wall clock is set back to *)
(* 01:00 IST.  datetime.isoformat() is modelled by the pair (wall clock,   *)
(* UTC offset) it prints, and Python's comparison of two such strings by   *)
(* the lexicographic comparison of the pairs.                              *)
(***************************************************************************)
EXTENDS Integers, Sequences, FiniteSets, TLC

VARIABLES now, tasks, jobs, seen, inflight, event, outbox

vars == <<now, tasks, jobs, seen, inflight, event, outbox>>

(***************************************************************************)
(* Bounds of the model.                                                    *)
(***************************************************************************)
NumChats == 2
MaxTasks == 2
MaxTicks == 1
MaxMsgLen == 4
MaxInflight == 2
TicksPerSecond == 2000
MaxRows == 3
MaxDay == 2

Chats == 1..NumChats

(***************************************************************************)
(* Durations, in ticks.                                                    *)
(***************************************************************************)
SEC == TicksPerSecond
MINUTE == 60 * SEC
HOUR == 60 * MINUTE
DAY == 24 * HOUR

(***************************************************************************)
(* TZ = ZoneInfo("Asia/Jerusalem"): UTC+3 (IDT) until 02:00 IDT of day 0,  *)
(* UTC+2 (IST) from then on.                                               *)
(***************************************************************************)
IDT == 3
IST == 2
FoldAt == 2 * HOUR

UtcOffset(t) == IF t < FoldAt THEN IDT ELSE IST

\* The local wall clock at instant t, in ticks since 00:00 of day 0.
Wall(t) == t + (UtcOffset(t) - IDT) * HOUR

\* datetime.isoformat() of the aware datetime at instant t.
IsoFormat(t) == [wall |-> Wall(t), off |-> UtcOffset(t)]

\* The instant an ISO string denotes (datetime.fromisoformat, SQLite datetime()).
IsoInstant(s) == s.wall - (s.off - IDT) * HOUR

\* Python's str < str on two isoformat() strings: the date and time fields are
\* fixed-width digits, then comes the offset "+02:00" or "+03:00".
IsoLess(x, y) == x.wall < y.wall \/ (x.wall = y.wall /\ x.off < y.off)

\* The SQL NULL of the done_at column.
NULL == [wall |-> -1, off |-> 0]

(***************************************************************************)
(* SECTION_ORDER and SECTION_PRIORITY.                                     *)
(***************************************************************************)
SECTION_ORDER == <<"Urgent", "Today", "Tomorrow", "General">>

Sections == {SECTION_ORDER[i] : i \in 1..Len(SECTION_ORDER)}

\* SECTION_PRIORITY.get(section, 999)
SectionPriority(section) ==
    IF section \in Sections
    THEN (CHOOSE i \in 1..Len(SECTION_ORDER) : SECTION_ORDER[i] = section) - 1
    ELSE 999

(***************************************************************************)
(* Text.                                                                   *)
(***************************************************************************)
Whitespace == {" ", "\t"}
Digits == <<"0", "1", "2", "3", "4", "5", "6", "7", "8", "9">>
DigitAtoms == {Digits[i] : i \in 1..Len(Digits)}
DigitValue(d) == (CHOOSE i \in 1..Len(Digits) : Digits[i] = d) - 1

\* s.strip()
RECURSIVE LStrip(_)
LStrip(s) == IF s # <<>> /\ Head(s) \in Whitespace THEN LStrip(Tail(s)) ELSE s

RECURSIVE RStrip(_)
RStrip(s) ==
    IF s # <<>> /\ s[Len(s)] \in Whitespace
    THEN RStrip(SubSeq(s, 1, Len(s) - 1))
    ELSE s

Strip(s) == RStrip(LStrip(s))

\* re.sub(r"\s+", " ", s): every run of whitespace becomes one space.
RECURSIVE CollapseWhitespace(_)
CollapseWhitespace(s) ==
    IF s = <<>> THEN <<>>
    ELSE IF Head(s) \in Whitespace
         THEN <<" ">> \o CollapseWhitespace(LStrip(s))
         ELSE <<Head(s)>> \o CollapseWhitespace(Tail(s))

normalize_text(s) == CollapseWhitespace(Strip(s))

\* str.split(): the words of s, each a non-empty sequence of atoms.
RECURSIVE SplitFrom(_, _)
SplitFrom(s, word) ==
    IF s = <<>> THEN (IF word = <<>> THEN <<>> ELSE <<word>>)
    ELSE IF Head(s) \in Whitespace
         THEN (IF word = <<>> THEN <<>> ELSE <<word>>) \o SplitFrom(Tail(s), <<>>)
         ELSE SplitFrom(Tail(s), Append(word, Head(s)))

Split(s) == SplitFrom(s, <<>>)

\* " ".join(words)
RECURSIVE Join(_)
Join(words) ==
    IF words = <<>> THEN <<>>
    ELSE IF Len(words) = 1 THEN words[1]
         ELSE words[1] \o <<" ">> \o Join(Tail(words))

\* Mutant of parse_section_from_text: the keyword is recognized and left in the
\* task text.
ParseSectionKeepKeyword(raw) ==
    LET text == Strip(raw)
        words == Split(text)
        last == words[Len(words)]
    IN  IF text = <<>> THEN [section |-> "General", text |-> <<>>]
        ELSE IF Len(last) = 1 /\ last[1] \in Sections
             THEN [section |-> last[1], text |-> text]
             ELSE [section |-> "General", text |-> text]

\* Mutant of parse_section_from_text: without the early return of an empty
\* task text, a lone keyword falls through to the last line.
ParseSectionLoneKeyword(raw) ==
    LET text == Strip(raw)
        words == Split(text)
        last == words[Len(words)]
        task_text == Strip(Join(SubSeq(words, 1, Len(words) - 1)))
    IN  IF text = <<>> THEN [section |-> "General", text |-> <<>>]
        ELSE IF Len(last) = 1 /\ last[1] \in Sections /\ task_text # <<>>
             THEN [section |-> last[1], text |-> task_text]
             ELSE [section |-> "General", text |-> text]

\* parse_section_from_text: the section and the task text.
parse_section_from_text(raw) ==
    LET text == Strip(raw)
        words == Split(text)
        last == words[Len(words)]
    IN  IF text = <<>> THEN [section |-> "General", text |-> <<>>]
        ELSE IF Len(last) = 1 /\ last[1] \in Sections
             THEN [section |-> last[1],
                   text |-> Strip(Join(SubSeq(words, 1, Len(words) - 1)))]
             ELSE [section |-> "General", text |-> text]

ListCommands ==
    { <<"list">>, <<"show", " ", "list">>, <<"see", " ", "list">>,
      <<"display", " ", "list">> }

is_list_command(text) == text \in ListCommands

DoneVerbs == {"finish", "finished"}

RECURSIVE IntOf(_)
IntOf(ds) ==
    IF ds = <<>> THEN 0 ELSE 10 * IntOf(SubSeq(ds, 1, Len(ds) - 1)) + DigitValue(ds[Len(ds)])

\* The match of ^(finish|finished)\s+(\d+)\s*$ : a verb, whitespace, digits,
\* whitespace to the end.  -1 stands for None.
parse_done_command(text) ==
    LET words == Split(text)
    IN  IF /\ text # <<>>
           /\ Len(words) = 2
           /\ Head(text) \notin Whitespace
           /\ Len(words[1]) = 1 /\ words[1][1] \in DoneVerbs
           /\ \A i \in 1..Len(words[2]) : words[2][i] \in DigitAtoms
        THEN IntOf(words[2])
        ELSE -1

\* html.escape(text): the markup characters become entities, atom by atom.
EscapeAtom(a) ==
    CASE a = "&" -> "&amp;"
      [] a = "<" -> "&lt;"
      [] a = ">" -> "&gt;"
      [] a = "\"" -> "&quot;"
      [] a = "'" -> "&#x27;"
      [] OTHER -> a

\* Mutant of HtmlEscape: the text as it is.
NoEscape(text) == text

HtmlEscape(text) == [i \in 1..Len(text) |-> EscapeAtom(text[i])]

(***************************************************************************)
(* The tasks table.  tasks[i] is the row whose id is i: AUTOINCREMENT      *)
(* hands out 1, 2, 3, ... and no row is ever deleted.                      *)
(***************************************************************************)
\* The row add_task inserts.
NewTask(chat_id, section, text) ==
    [chat_id |-> chat_id, section |-> section, text |-> Strip(text),
     created_at |-> IsoFormat(now), done |-> 0, done_at |-> NULL]

\* SELECT id, section, text, created_at of row i.
Row(i) ==
    [id |-> i, section |-> tasks[i].section, text |-> tasks[i].text,
     created_at |-> tasks[i].created_at]

\* Mutant of IsOpen: WHERE done=0, without the chat.
IsOpenAnyChat(i, chat_id) == tasks[i].done = 0

\* WHERE chat_id=? AND done=0
IsOpen(i, chat_id) == tasks[i].chat_id = chat_id /\ tasks[i].done = 0

\* get_open_tasks: the rows in the order of SQLite's table scan, by rowid.
RECURSIVE ScanOpen(_, _)
ScanOpen(i, chat_id) ==
    IF i > Len(tasks) THEN <<>>
    ELSE (IF IsOpen(i, chat_id) THEN <<Row(i)>> ELSE <<>>) \o ScanOpen(i + 1, chat_id)

get_open_tasks(chat_id) == ScanOpen(1, chat_id)

\* Mutant of SortKey: the key without the id.
SortKeyNoId(r) == <<SectionPriority(r.section), r.created_at, 0>>

\* key(r) of ordered_open_tasks_with_numbers
SortKey(r) == <<SectionPriority(r.section), r.created_at, r.id>>

\* Python's tuple comparison key(a) < key(b): int, str, int.
KeyLess(a, b) ==
    \/ a[1] < b[1]
    \/ a[1] = b[1] /\ IsoLess(a[2], b[2])
    \/ a[1] = b[1] /\ a[2] = b[2] /\ a[3] < b[3]

\* One step of the stable sort: r goes after every element whose key is not
\* greater than its own.
InsertByKey(acc, r) ==
    LET p == Cardinality({i \in 1..Len(acc) : ~KeyLess(SortKey(r), SortKey(acc[i]))})
    IN  SubSeq(acc, 1, p) \o <<r>> \o SubSeq(acc, p + 1, Len(acc))

\* sorted(rows, key=key)
RECURSIVE Sorted(_)
Sorted(rows) ==
    IF rows = <<>> THEN <<>>
    ELSE InsertByKey(Sorted(SubSeq(rows, 1, Len(rows) - 1)), rows[Len(rows)])

\* Mutant of Enumerate: enumerate(rows_sorted) without start=1.
EnumerateFromZero(rows) ==
    [i \in 1..Len(rows) |->
        [display_no |-> i - 1, id |-> rows[i].id, section |-> rows[i].section,
         text |-> rows[i].text, created_at |-> rows[i].created_at]]

\* enumerate(rows_sorted, start=1)
Enumerate(rows) ==
    [i \in 1..Len(rows) |->
        [display_no |-> i, id |-> rows[i].id, section |-> rows[i].section,
         text |-> rows[i].text, created_at |-> rows[i].created_at]]

ordered_open_tasks_with_numbers(chat_id) == Enumerate(Sorted(get_open_tasks(chat_id)))

\* Mutant of Targets: the row after the one asked for.
TargetsOffByOne(numbered, display_no) ==
    {i \in 1..Len(numbered) : numbered[i].display_no = display_no + 1}

\* next((x for x in numbered if x[0] == display_no), None): the indices that match.
Targets(numbered, display_no) ==
    {i \in 1..Len(numbered) : numbered[i].display_no = display_no}

\* Mutant of UpdateMatches: the UPDATE without AND done=0.
UpdateMatchesDone(i, chat_id, task_id) ==
    i = task_id /\ tasks[i].chat_id = chat_id

\* UPDATE tasks SET done=1, done_at=? WHERE chat_id=? AND id=? AND done=0
UpdateMatches(i, chat_id, task_id) ==
    i = task_id /\ tasks[i].chat_id = chat_id /\ tasks[i].done = 0

\* Mutant of UpdateDone: SET done=1 without done_at.
UpdateDoneNoStamp(chat_id, task_id) ==
    [i \in 1..Len(tasks) |->
        IF UpdateMatches(i, chat_id, task_id)
        THEN [tasks[i] EXCEPT !.done = 1]
        ELSE tasks[i]]

UpdateDone(chat_id, task_id) ==
    [i \in 1..Len(tasks) |->
        IF UpdateMatches(i, chat_id, task_id)
        THEN [tasks[i] EXCEPT !.done = 1, !.done_at = IsoFormat(now)]
        ELSE tasks[i]]

\* cur.rowcount
RowCount(chat_id, task_id) ==
    Cardinality({i \in 1..Len(tasks) : UpdateMatches(i, chat_id, task_id)})

\* is_older_than_week: both datetimes carry the same tzinfo, so Python
\* subtracts their wall clocks.
is_older_than_week(created_at) == Wall(now) - Wall(IsoInstant(created_at)) >= 7 * DAY

\* SQLite reads a time value to the nearest millisecond (the half rounds up).
SqlMillis(t) == (t \div SEC) * 1000 + (2 * 1000 * (t % SEC) + SEC) \div (2 * SEC)

\* SQLite datetime(x): the UTC instant of x as SQLite reads it, cut to the
\* whole second.
SqlDatetime(iso) == SqlMillis(IsoInstant(iso)) \div 1000

\* The aware datetime (fold = 0) whose wall clock is w, as isoformat() prints it.
WallIso(w) == [wall |-> w, off |-> IF w < FoldAt THEN IDT ELSE IST]

\* WHERE chat_id=? AND done=1 AND done_at IS NOT NULL AND start <= done_at < end
InRange(i, chat_id, start, end) ==
    /\ tasks[i].chat_id = chat_id
    /\ tasks[i].done = 1
    /\ tasks[i].done_at # NULL
    /\ SqlDatetime(tasks[i].done_at) >= SqlDatetime(start)
    /\ SqlDatetime(tasks[i].done_at) < SqlDatetime(end)

\* ORDER BY datetime(done_at) ASC, rows of one second in rowid order.
RECURSIVE SortedByDoneAt(_)
SortedByDoneAt(ids) ==
    IF ids = {} THEN <<>>
    ELSE LET m == CHOOSE i \in ids : \A j \in ids :
                    \/ SqlDatetime(tasks[i].done_at) < SqlDatetime(tasks[j].done_at)
                    \/ /\ SqlDatetime(tasks[i].done_at) = SqlDatetime(tasks[j].done_at)
                       /\ i <= j
         IN  <<m>> \o SortedByDoneAt(ids \ {m})

get_tasks_done_in_range(chat_id, start, end) ==
    LET ids == SortedByDoneAt({i \in 1..Len(tasks) : InRange(i, chat_id, start, end)})
    IN  [k \in 1..Len(ids) |->
            [id |-> ids[k], section |-> tasks[ids[k]].section,
             text |-> tasks[ids[k]].text, done_at |-> tasks[ids[k]].done_at]]

(***************************************************************************)
(* Formatting.  A rendered message is kept as its parts.                   *)
(***************************************************************************)
\* The item lines of one section, in display order.
GroupOf(numbered, section) ==
    LET RECURSIVE Items(_)
        Items(i) ==
            IF i > Len(numbered) THEN <<>>
            ELSE (IF numbered[i].section = section
                  THEN <<[red |-> is_older_than_week(numbered[i].created_at),
                          display_no |-> numbered[i].display_no,
                          text |-> HtmlEscape(numbered[i].text)]>>
                  ELSE <<>>) \o Items(i + 1)
    IN  Items(1)

format_open_tasks_message(chat_id) ==
    LET numbered == ordered_open_tasks_with_numbers(chat_id)
    IN  IF numbered = <<>>
        THEN [kind |-> "no_open_tasks"]
        ELSE [kind |-> "open_tasks",
              groups |-> [k \in 1..Len(SECTION_ORDER) |->
                            [title |-> SECTION_ORDER[k],
                             items |-> GroupOf(numbered, SECTION_ORDER[k]),
                             placeholder |-> GroupOf(numbered, SECTION_ORDER[k]) = <<>>]]]

format_done_summary_for_range(chat_id, start, end) ==
    LET rows == get_tasks_done_in_range(chat_id, start, end)
    IN  [kind |-> "done_summary", start |-> start, end |-> end,
         day_label |-> start.wall \div DAY,
         count |-> Len(rows),
         count_line |-> IF Len(rows) > 0 THEN "finished_n" ELSE "finished_zero",
         lines |-> [k \in 1..Len(rows) |-> HtmlEscape(rows[k].text)]]

(***************************************************************************)
(* The job queue: how many jobs are registered under each name and chat.   *)
(***************************************************************************)
JobNames == {"rem-0900", "rem-1815", "sum-0000"}
JobKeys == JobNames \X Chats

\* context.job_queue.get_jobs_by_name(name): the number of jobs found.
get_jobs_by_name(q, name, chat_id) == q[<<name, chat_id>>]

\* for j in get_jobs_by_name(name): j.schedule_removal()
RemoveJobs(q, name, chat_id) == [q EXCEPT ![<<name, chat_id>>] = 0]

\* context.job_queue.run_daily(callback, time, chat_id, name)
run_daily(q, name, chat_id) == [q EXCEPT ![<<name, chat_id>>] = @ + 1]

\* Mutant of RegisteredNames: the third run_daily repeats the second name.
RegisteredNamesRepeated == <<"rem-0900", "rem-1815", "rem-1815">>

\* The names start_jobs_for_chat cancels and the names it registers, in order.
RemovedNames == <<"rem-0900", "rem-1815", "sum-0000">>
RegisteredNames == <<"rem-0900", "rem-1815", "sum-0000">>

RECURSIVE RemoveAll(_, _, _)
RemoveAll(q, names, chat_id) ==
    IF names = <<>> THEN q
    ELSE RemoveAll(RemoveJobs(q, Head(names), chat_id), Tail(names), chat_id)

RECURSIVE RegisterAll(_, _, _)
RegisterAll(q, names, chat_id) ==
    IF names = <<>> THEN q
    ELSE RegisterAll(run_daily(q, Head(names), chat_id), Tail(names), chat_id)

start_jobs_for_chat(q, chat_id) ==
    RegisterAll(RemoveAll(q, RemovedNames, chat_id), RegisteredNames, chat_id)

\* on_first_message (handler group 0): the job queue and the replies it leaves.
FirstMessageJobs(chat_id) ==
    IF get_jobs_by_name(jobs, "rem-0900", chat_id) = 0
    THEN start_jobs_for_chat(jobs, chat_id)
    ELSE jobs

\* Mutant of FirstMessageReplies: the welcome is sent for every text.
WelcomeAlways(chat_id) == <<[kind |-> "welcome"]>>

FirstMessageReplies(chat_id) ==
    IF get_jobs_by_name(jobs, "rem-0900", chat_id) = 0
    THEN <<[kind |-> "welcome"]>>
    ELSE <<>>

(***************************************************************************)
(* The state.  event is the update or job being handled, or handled last;  *)
(* outbox holds the messages sent for it so far; inflight holds the calls  *)
(* of mark_done_by_display_number that have resolved their target and not  *)
(* yet run their UPDATE; seen is the set of chats that have sent a text.   *)
(***************************************************************************)
NoEvent == [kind |-> "none", chat |-> 0, text |-> <<>>]

TextEvent(chat_id, raw) == [kind |-> "text", chat |-> chat_id, text |-> raw]

JobEvent(chat_id, name) == [kind |-> "job", chat |-> chat_id, text |-> <<name>>]

\* The first half of every text update: on_first_message, then on_text
\* normalizes the text.
Received(chat_id, raw) ==
    /\ jobs' = FirstMessageJobs(chat_id)
    /\ seen' = seen \cup {chat_id}
    /\ event' = TextEvent(chat_id, raw)

\* on_text, the list command.
OnTextList(chat_id, raw) ==
    /\ is_list_command(normalize_text(raw))
    /\ Received(chat_id, raw)
    /\ outbox' = Append(FirstMessageReplies(chat_id), format_open_tasks_message(chat_id))
    /\ UNCHANGED <<now, tasks, inflight>>

\* on_text, a completion command whose display number matches no open task:
\* mark_done_by_display_number returns False at line 170.
OnTextDoneMiss(chat_id, raw) ==
    LET text == normalize_text(raw)
        display_no == parse_done_command(text)
    IN  /\ ~is_list_command(text)
        /\ display_no # -1
        /\ Targets(ordered_open_tasks_with_numbers(chat_id), display_no) = {}
        /\ Received(chat_id, raw)
        /\ outbox' = Append(FirstMessageReplies(chat_id), [kind |-> "not_found"])
        /\ UNCHANGED <<now, tasks, inflight>>

\* on_text, a completion command, up to line 172: the target is resolved.
OnTextDoneResolve(chat_id, raw) ==
    LET text == normalize_text(raw)
        display_no == parse_done_command(text)
        numbered == ordered_open_tasks_with_numbers(chat_id)
        hits == Targets(numbered, display_no)
    IN  /\ ~is_list_command(text)
        /\ display_no # -1
        /\ hits # {}
        /\ Len(inflight) < MaxInflight
        /\ Received(chat_id, raw)
        /\ inflight' = Append(inflight,
               [chat |-> chat_id, display_no |-> display_no,
                task_id |-> numbered[CHOOSE i \in hits : \A j \in hits : i <= j].id,
                text |-> raw, out |-> FirstMessageReplies(chat_id)])
        /\ outbox' = FirstMessageReplies(chat_id)
        /\ UNCHANGED <<now, tasks>>

\* mark_done_by_display_number from line 174 on, and the reply of on_text.
MarkDoneUpdate(k) ==
    /\ k \in 1..Len(inflight)
    /\ LET call == inflight[k]
           changed == RowCount(call.chat, call.task_id) > 0
       IN  /\ tasks' = UpdateDone(call.chat, call.task_id)
           /\ event' = TextEvent(call.chat, call.text)
           /\ outbox' = Append(call.out,
                  IF changed THEN [kind |-> "marked_done"] ELSE [kind |-> "not_found"])
    /\ inflight' = SubSeq(inflight, 1, k - 1) \o SubSeq(inflight, k + 1, Len(inflight))
    /\ UNCHANGED <<now, jobs, seen>>

\* on_text, a new task whose text is empty: the usage prompt.
OnTextUsage(chat_id, raw) ==
    LET text == normalize_text(raw)
        parsed == parse_section_from_text(text)
    IN  /\ ~is_list_command(text)
        /\ parse_done_command(text) = -1
        /\ parsed.text = <<>>
        /\ Received(chat_id, raw)
        /\ outbox' = Append(FirstMessageReplies(chat_id), [kind |-> "usage"])
        /\ UNCHANGED <<now, tasks, inflight>>

\* on_text, a new task: add_task and the reply that names the section.
OnTextAdd(chat_id, raw) ==
    LET text == normalize_text(raw)
        parsed == parse_section_from_text(text)
    IN  /\ ~is_list_command(text)
        /\ parse_done_command(text) = -1
        /\ parsed.text # <<>>
        /\ Len(tasks) < MaxTasks
        /\ Received(chat_id, raw)
        /\ tasks' = Append(tasks, NewTask(chat_id, parsed.section, parsed.text))
        /\ outbox' = Append(FirstMessageReplies(chat_id),
               [kind |-> "added", section |-> HtmlEscape(<<parsed.section>>)[1]])
        /\ UNCHANGED <<now, inflight>>

OnText(chat_id, raw) ==
    \/ OnTextList(chat_id, raw)
    \/ OnTextDoneMiss(chat_id, raw)
    \/ OnTextDoneResolve(chat_id, raw)
    \/ OnTextUsage(chat_id, raw)
    \/ OnTextAdd(chat_id, raw)

\* send_open_tasks, the callback of the 09:00 and 18:15 jobs.
send_open_tasks(chat_id, name) ==
    /\ name \in {"rem-0900", "rem-1815"}
    /\ get_jobs_by_name(jobs, name, chat_id) > 0
    /\ event' = JobEvent(chat_id, name)
    /\ outbox' = <<format_open_tasks_message(chat_id)>>
    /\ UNCHANGED <<now, tasks, jobs, seen, inflight>>

\* Mutant of MidnightRef: ref = now().
MidnightRefNow == Wall(now)

\* The window of send_midnight_done_summary: ref = now() - 1 s, its local
\* midnight, and one day of wall clock later.
MidnightRef == Wall(now) - SEC
DayStart == (MidnightRef \div DAY) * DAY
DayEnd == DayStart + DAY

\* Mutant of send_midnight_done_summary: the tasks it has summed up are
\* reopened.
SendMidnightAndReopen(chat_id) ==
    /\ get_jobs_by_name(jobs, "sum-0000", chat_id) > 0
    /\ event' = JobEvent(chat_id, "sum-0000")
    /\ outbox' = <<format_done_summary_for_range(chat_id, WallIso(DayStart), WallIso(DayEnd))>>
    /\ tasks' = [i \in 1..Len(tasks) |->
                   IF InRange(i, chat_id, WallIso(DayStart), WallIso(DayEnd))
                   THEN [tasks[i] EXCEPT !.done = 0, !.done_at = NULL]
                   ELSE tasks[i]]
    /\ UNCHANGED <<now, jobs, seen, inflight>>

\* send_midnight_done_summary, the callback of the 00:00 job.
send_midnight_done_summary(chat_id) ==
    /\ get_jobs_by_name(jobs, "sum-0000", chat_id) > 0
    /\ event' = JobEvent(chat_id, "sum-0000")
    /\ outbox' = <<format_done_summary_for_range(chat_id, WallIso(DayStart), WallIso(DayEnd))>>
    /\ UNCHANGED <<now, tasks, jobs, seen, inflight>>

\* The clock moves on by d ticks.
Tick(d) ==
    /\ now' = now + d
    /\ UNCHANGED <<tasks, jobs, seen, inflight, event, outbox>>

(***************************************************************************)
(* The process is started at 01:30 IDT of day 0 on an empty table: half an *)
(* hour before the wall clock is set back.                                 *)
(***************************************************************************)
Boot == 90 * MINUTE

Init ==
    /\ now = Boot
    /\ tasks = <<>>
    /\ jobs = [k \in JobKeys |-> 0]
    /\ seen = {}
    /\ inflight = <<>>
    /\ event = NoEvent
    /\ outbox = <<>>

\* The texts the chats send.
Bodies == {<<"a">>}

TaskTexts ==
    Bodies \cup {b \o <<" ", s>> : b \in Bodies, s \in Sections} \cup {<<"Urgent">>}

DoneTexts == {<<"finish", " ", Digits[n + 1]>> : n \in 0..(MaxTasks + 1)}

Messages == TaskTexts \cup {<<"list">>} \cup DoneTexts

\* Mutant of Serialized: updates are handled concurrently.
Unserialized == TRUE

\* The application handles one update at a time, and no handler awaits
\* between resolving a display number and the UPDATE.
Serialized == inflight = <<>>

Next ==
    \/ Serialized /\ \E c \in Chats, m \in Messages : OnTextList(c, m)
    \/ Serialized /\ \E c \in Chats, m \in Messages : OnTextDoneMiss(c, m)
    \/ Serialized /\ \E c \in Chats, m \in Messages : OnTextDoneResolve(c, m)
    \/ Serialized /\ \E c \in Chats, m \in Messages : OnTextUsage(c, m)
    \/ Serialized /\ \E c \in Chats, m \in Messages : OnTextAdd(c, m)
    \/ Serialized /\ \E c \in Chats, n \in JobNames : send_open_tasks(c, n)
    \/ Serialized /\ \E c \in Chats : send_midnight_done_summary(c)
    \/ \E k \in 1..MaxInflight : MarkDoneUpdate(k)
    \/ now < Boot + MaxTicks * HOUR /\ Tick(HOUR)

Spec == Init /\ [][Next]_vars

(***************************************************************************)
(* The same steps with the handlers of several updates running at once     *)
(* (concurrent updates, or a second worker on the same tasks.db): a        *)
(* handler may run between another's resolution and its UPDATE.  Every     *)
(* behaviour of Spec is one of SpecRace.                                   *)
(***************************************************************************)
RaceMessages == {<<"a">>} \cup DoneTexts

NextRace ==
    \/ \E c \in Chats, m \in RaceMessages : OnTextDoneMiss(c, m)
    \/ \E c \in Chats, m \in RaceMessages : OnTextDoneResolve(c, m)
    \/ \E c \in Chats, m \in RaceMessages : OnTextAdd(c, m)
    \/ \E k \in 1..MaxInflight : MarkDoneUpdate(k)
    \/ now < Boot + MaxTicks * HOUR /\ Tick(HOUR)

SpecRace == Init /\ [][NextRace]_vars

(***************************************************************************)
(* The process restarted on a tasks.db written earlier: the table holds up *)
(* to MaxRows open tasks, ids in the order of creation, the job queue is    *)
(* empty.  One update is handled.                                          *)
(***************************************************************************)
OrderInstants == {Boot, Boot + HOUR}

OrderRows ==
    [chat_id : Chats, section : Sections, text : {<<"a">>},
     created_at : {IsoFormat(t) : t \in OrderInstants}, done : {0}, done_at : {NULL}]

OrderStores ==
    {st \in UNION {[1..n -> OrderRows] : n \in 0..MaxRows} :
        \A i, j \in 1..Len(st) :
            i < j => IsoInstant(st[i].created_at) <= IsoInstant(st[j].created_at)}

InitOrder ==
    /\ now = Boot + HOUR
    /\ tasks \in OrderStores
    /\ jobs = [k \in JobKeys |-> 0]
    /\ seen = {}
    /\ inflight = <<>>
    /\ event = NoEvent
    /\ outbox = <<>>

OrderMessages == {<<"list">>} \cup {<<"finish", " ", Digits[n + 1]>> : n \in 0..(MaxRows + 1)}

\* No update has been handled since the start.
FirstUpdate == event = NoEvent

NextOrder ==
    \/ FirstUpdate /\ \E c \in Chats, m \in OrderMessages : OnTextList(c, m)
    \/ FirstUpdate /\ \E c \in Chats, m \in OrderMessages : OnTextDoneMiss(c, m)
    \/ FirstUpdate /\ \E c \in Chats, m \in OrderMessages : OnTextDoneResolve(c, m)
    \/ \E k \in 1..MaxInflight : MarkDoneUpdate(k)

SpecOrder == InitOrder /\ [][NextOrder]_vars

(***************************************************************************)
(* The classification of one text: the first update after the start is any *)
(* text of up to MaxMsgLen atoms, on an empty table or on a table with one *)
(* open task of chat 1.                                                    *)
(***************************************************************************)
Alphabet ==
    {" ", "\t", "a", "1", "list", "finish"} \cup Sections

ParseTexts == UNION {[1..n -> Alphabet] : n \in 1..MaxMsgLen}

ParseStores ==
    {<<>>,
     <<[chat_id |-> 1, section |-> "General", text |-> <<"a">>,
        created_at |-> IsoFormat(Boot), done |-> 0, done_at |-> NULL]>>}

InitParse ==
    /\ now = Boot + HOUR
    /\ tasks \in ParseStores
    /\ jobs = [k \in JobKeys |-> 0]
    /\ seen = {}
    /\ inflight = <<>>
    /\ event = NoEvent
    /\ outbox = <<>>

NextParse ==
    \/ FirstUpdate /\ \E c \in Chats, m \in ParseTexts : OnTextList(c, m)
    \/ FirstUpdate /\ \E c \in Chats, m \in ParseTexts : OnTextDoneMiss(c, m)
    \/ FirstUpdate /\ \E c \in Chats, m \in ParseTexts : OnTextDoneResolve(c, m)
    \/ FirstUpdate /\ \E c \in Chats, m \in ParseTexts : OnTextUsage(c, m)
    \/ FirstUpdate /\ \E c \in Chats, m \in ParseTexts : OnTextAdd(c, m)
    \/ \E k \in 1..MaxInflight : MarkDoneUpdate(k)

SpecParse == InitParse /\ [][NextParse]_vars

(***************************************************************************)
(* Around midnight.  The process is started within a second of the local   *)
(* midnight that ends day 0, the 25-hour day, or a later day up to MaxDay; *)
(* the clock moves from one of the instants around these midnights to the  *)
(* next.                                                                   *)
(***************************************************************************)
\* The instant at which day d begins on the local wall clock.
LocalMidnight(d) == IF d = 0 THEN 0 ELSE d * DAY + HOUR

\* One second and one tick before a midnight, the midnight, one tick and one
\* second less a tick after it, and the full second.
ClockOffsets == {0 - SEC, 0 - 1, 0, 1, SEC - 1, SEC}

ClockInstants == {LocalMidnight(d) + j : d \in 1..MaxDay, j \in ClockOffsets}

ClockMessages == {<<"a">>, <<"finish", " ", "1">>, <<"finish", " ", "2">>}

InitClock ==
    /\ now \in ClockInstants
    /\ tasks = <<>>
    /\ jobs = [k \in JobKeys |-> 0]
    /\ seen = {}
    /\ inflight = <<>>
    /\ event = NoEvent
    /\ outbox = <<>>

NextClock ==
    \/ Serialized /\ \E c \in Chats, m \in ClockMessages : OnTextAdd(c, m)
    \/ Serialized /\ \E c \in Chats, m \in ClockMessages : OnTextDoneResolve(c, m)
    \/ Serialized /\ \E c \in Chats : send_midnight_done_summary(c)
    \/ \E k \in 1..MaxInflight : MarkDoneUpdate(k)
    \/ \E t \in ClockInstants :
          /\ t > now
          /\ \A u \in ClockInstants : u > now => t <= u
          /\ Tick(t - now)

SpecClock == InitClock /\ [][NextClock]_vars

(***************************************************************************)
(* Tasks whose texts hold markup characters, listed and completed.         *)
(***************************************************************************)
ListMessages ==
    {<<"<">>, <<"a", "&", " ", "Urgent">>, <<"\"", " ", "Today">>,
     <<">", " ", "Tomorrow">>, <<"'", " ", "General">>,
     <<"list">>, <<"finish", " ", "1">>, <<"finish", " ", "2">>}

NextList ==
    \/ Serialized /\ \E c \in Chats, m \in ListMessages : OnTextList(c, m)
    \/ Serialized /\ \E c \in Chats, m \in ListMessages : OnTextDoneResolve(c, m)
    \/ Serialized /\ \E c \in Chats, m \in ListMessages : OnTextAdd(c, m)
    \/ Serialized /\ \E c \in Chats, n \in JobNames : send_open_tasks(c, n)
    \/ \E k \in 1..MaxInflight : MarkDoneUpdate(k)

SpecList == Init /\ [][NextList]_vars

(***************************************************************************)
(* A week and a day from the start: the instants around the seventh day of  *)
(* a task created at the start, before the clock is set back, and of one    *)
(* created an hour later, after it.                                         *)
(***************************************************************************)
WEEK == 7 * DAY

AgeInstants ==
    {Boot, Boot + HOUR, Boot + 6 * DAY,
     Boot + WEEK - 1, Boot + WEEK,
     Boot + WEEK + HOUR - 1, Boot + WEEK + HOUR,
     Boot + WEEK + DAY}

AgeMessages == {<<"a">>, <<"a", " ", "Urgent">>, <<"list">>}

NextAge ==
    \/ Serialized /\ \E c \in Chats, m \in AgeMessages : OnTextAdd(c, m)
    \/ Serialized /\ \E c \in Chats, m \in AgeMessages : OnTextList(c, m)
    \/ Serialized /\ \E c \in Chats, n \in JobNames : send_open_tasks(c, n)
    \/ \E t \in AgeInstants : t > now /\ Tick(t - now)

SpecAge == Init /\ [][NextAge]_vars

(***************************************************************************)
(* Helpers of the properties.                                              *)
(***************************************************************************)
OpenIds(chat_id) == {i \in 1..Len(tasks) : IsOpen(i, chat_id)}
DoneIds(chat_id) == {i \in 1..Len(tasks) : tasks[i].chat_id = chat_id /\ tasks[i].done = 1}
LastReply == outbox[Len(outbox)]

\* C4: every stored task has a done_at exactly when it is done; a new task is
\* open and has none.
C4_DoneAtIffDone ==
    \A i \in 1..Len(tasks) :
        /\ tasks[i].done \in {0, 1}
        /\ (tasks[i].done_at # NULL) <=> (tasks[i].done = 1)

C4_Witness ==
    \E i, j \in 1..Len(tasks) :
        /\ tasks[i].done = 1 /\ tasks[i].done_at # NULL
        /\ tasks[j].done = 0 /\ tasks[j].done_at = NULL

\* C10: a chat that has sent a text has exactly one job under each of the three
\* names, and a chat that has sent none has no job.
C10_ThreeJobsPerSeenChat ==
    \A c \in Chats, n \in JobNames :
        get_jobs_by_name(jobs, n, c) = (IF c \in seen THEN 1 ELSE 0)

C10_Witness ==
    /\ seen = {1}
    /\ Cardinality({i \in 1..Len(tasks) : tasks[i].chat_id = 1}) >= 2
    /\ \A n \in JobNames : get_jobs_by_name(jobs, n, 1) = 1

\* The claimed rank of a section: Urgent 0, Today 1, Tomorrow 2, General 3,
\* anything else after them.
ClaimedRank(section) ==
    CASE section = "Urgent" -> 0
      [] section = "Today" -> 1
      [] section = "Tomorrow" -> 2
      [] section = "General" -> 3
      [] OTHER -> 4

\* (rank, created_at, id) of a before that of b, created_at taken as the time
\* of creation.
ChronologicallyBefore(a, b) ==
    \/ ClaimedRank(a.section) < ClaimedRank(b.section)
    \/ /\ ClaimedRank(a.section) = ClaimedRank(b.section)
       /\ IsoInstant(a.created_at) < IsoInstant(b.created_at)
    \/ /\ ClaimedRank(a.section) = ClaimedRank(b.section)
       /\ IsoInstant(a.created_at) = IsoInstant(b.created_at)
       /\ a.id < b.id

\* C2: of two open tasks of a chat, a has the lower display number exactly when
\* (rank, created_at, id) of a is lexicographically smaller; within a section
\* the task created earlier is numbered first, and the lower id breaks a tie.
C2_OrderedByRankTimeId ==
    \A c \in Chats :
        LET numbered == ordered_open_tasks_with_numbers(c)
        IN  \A i, j \in 1..Len(numbered) :
                (numbered[i].display_no < numbered[j].display_no)
                    <=> ChronologicallyBefore(numbered[i], numbered[j])

\* What the code does order by: rank, then the stored created_at strings as
\* strings, then id.
StoredStringOrder ==
    \A c \in Chats :
        LET numbered == ordered_open_tasks_with_numbers(c)
        IN  \A i, j \in 1..Len(numbered) :
                (numbered[i].display_no < numbered[j].display_no)
                    <=> \/ ClaimedRank(numbered[i].section) < ClaimedRank(numbered[j].section)
                        \/ /\ numbered[i].section = numbered[j].section
                           /\ IsoLess(numbered[i].created_at, numbered[j].created_at)
                        \/ /\ numbered[i].section = numbered[j].section
                           /\ numbered[i].created_at = numbered[j].created_at
                           /\ numbered[i].id < numbered[j].id

\* inflight without its k-th call.
Without(calls, k) == SubSeq(calls, 1, k - 1) \o SubSeq(calls, k + 1, Len(calls))

\* The tasks a step marks done.
Flipped == {i \in 1..Len(tasks) : tasks[i].done = 0 /\ tasks'[i].done = 1}

\* The resolved target of every call in flight still holds the requested
\* display number among the open tasks of its chat.
C5_TargetHoldsNumber ==
    \A k \in 1..Len(inflight) :
        LET numbered == ordered_open_tasks_with_numbers(inflight[k].chat)
        IN  /\ inflight[k].display_no \in 1..Len(numbered)
            /\ numbered[inflight[k].display_no].id = inflight[k].task_id

C5_UpdateStep ==
    \A k \in 1..Len(inflight) :
        (/\ inflight' = Without(inflight, k)
         /\ event' = TextEvent(inflight[k].chat, inflight[k].text)
         /\ LastReply'.kind = "marked_done")
        => LET numbered == ordered_open_tasks_with_numbers(inflight[k].chat)
           IN  /\ inflight[k].display_no \in 1..Len(numbered)
               /\ Flipped = {numbered[inflight[k].display_no].id}
               /\ \A i \in 1..Len(tasks) : tasks[i].done = 1 => tasks'[i] = tasks[i]

C6_OutOfRangeStep ==
    (event'.kind = "text" /\ OnText(event'.chat, event'.text))
    => LET n == parse_done_command(normalize_text(event'.text))
       IN  (n # -1 /\ n \notin 1..Cardinality(OpenIds(event'.chat)))
           => /\ tasks' = tasks
              /\ inflight' = inflight
              /\ LastReply'.kind = "not_found"

C6_OutOfRangeNotFound == [][C6_OutOfRangeStep]_vars

C6_Witness ==
    /\ inflight = <<>>
    /\ event.kind = "text"
    /\ parse_done_command(normalize_text(event.text)) > Cardinality(OpenIds(event.chat))
    /\ Cardinality(OpenIds(event.chat)) >= 1
    /\ outbox # <<>> /\ LastReply.kind = "not_found"

\* A call of mark_done_by_display_number ends: its UPDATE has run.
C3_UpdateStep ==
    Len(inflight') < Len(inflight)
    => /\ LastReply'.kind \in {"marked_done", "not_found"}
       /\ \A i \in 1..Len(tasks) : tasks[i].done = 1 => tasks'[i] = tasks[i]
       /\ LastReply'.kind = "marked_done" <=> Cardinality(Flipped) = 1
       /\ LastReply'.kind = "not_found" <=> tasks' = tasks

\* C3: a second completion of the same task reports failure and leaves done
\* and done_at as the first completion set them; a completion reports success
\* exactly when it turns one open task done.
C3_SecondCompletionFails == [][C3_UpdateStep]_vars

\* A call that had resolved display number 1 has lost the race for its task:
\* it answered not-found although the chat still has an open task.
C3_Witness ==
    /\ inflight = <<>>
    /\ event.kind = "text"
    /\ parse_done_command(normalize_text(event.text)) = 1
    /\ outbox # <<>> /\ LastReply.kind = "not_found"
    /\ OpenIds(event.chat) # {}
    /\ DoneIds(event.chat) # {}

\* The orders in which a SELECT without ORDER BY may return n rows.
FetchOrders(n) == {f \in [1..n -> 1..n] : \A i, j \in 1..n : f[i] = f[j] => i = j}

\* C1: for every chat, ordered_open_tasks_with_numbers gives the open tasks of
\* the chat the display numbers 1..N, each open task exactly one number and
\* each number exactly one task, and the sequence of (display number, id) does
\* not depend on the order in which the rows are fetched, so that a second
\* invocation on the same table returns the same sequence.
C1_NumberedOnceEach ==
    \A c \in Chats :
        LET rows == get_open_tasks(c)
            numbered == ordered_open_tasks_with_numbers(c)
        IN  /\ Len(numbered) = Cardinality(OpenIds(c))
            /\ \A i \in 1..Len(numbered) : numbered[i].display_no = i
            /\ {numbered[i].id : i \in 1..Len(numbered)} = OpenIds(c)
            /\ \A i, j \in 1..Len(numbered) : numbered[i].id = numbered[j].id => i = j
            /\ \A f \in FetchOrders(Len(rows)) :
                   LET again == Enumerate(Sorted([k \in 1..Len(rows) |-> rows[f[k]]]))
                   IN  [k \in 1..Len(again) |-> <<again[k].display_no, again[k].id>>]
                       = [k \in 1..Len(numbered) |-> <<numbered[k].display_no, numbered[k].id>>]

\* One task of chat 1 has been completed and two of its open tasks tie on
\* section and created_at.
C1_Witness ==
    /\ event.kind = "text" /\ event.chat = 1
    /\ LastReply.kind = "marked_done"
    /\ Cardinality(DoneIds(1)) = 1
    /\ \E i, j \in OpenIds(1) :
          /\ i < j
          /\ tasks[i].section = tasks[j].section
          /\ tasks[i].created_at = tasks[j].created_at

\* The whitespace-delimited tokens of a received text, and the tokens that are
\* a section keyword.
Tokens(raw) == Split(raw)
KeywordTokens == {<<"Urgent">>, <<"Today">>, <<"Tomorrow">>, <<"General">>}
LoneKeyword(toks) == Len(toks) = 1 /\ toks[1] \in KeywordTokens

\* The step handles a text that is neither a list command nor a completion
\* command.
HandlesTaskText ==
    /\ event # event'
    /\ event'.kind = "text"
    /\ ~is_list_command(normalize_text(event'.text))
    /\ parse_done_command(normalize_text(event'.text)) = -1

\* The row a step has inserted.
Inserted == tasks'[Len(tasks')]

C7_ClassifyStep ==
    LET toks == Tokens(event'.text)
        front == SubSeq(toks, 1, Len(toks) - 1)
    IN  HandlesTaskText /\ toks # <<>> /\ ~LoneKeyword(toks)
        => /\ Len(tasks') = Len(tasks) + 1
           /\ SubSeq(tasks', 1, Len(tasks)) = tasks
           /\ Inserted.chat_id = event'.chat
           /\ IF toks[Len(toks)] \in KeywordTokens
              THEN /\ Inserted.section = toks[Len(toks)][1]
                   /\ Inserted.text = Join(front)
              ELSE /\ Inserted.section = "General"
                   /\ Inserted.text = normalize_text(event'.text)

C7_SectionsEnumerated ==
    \A i \in 1..Len(tasks) : tasks[i].section \in {"Urgent", "Today", "Tomorrow", "General"}

\* C7: a text that is neither a list command nor a completion command and has
\* a body is stored as one task: if its last token is a section keyword, with
\* that section and the tokens before it, joined by single spaces, as the text;
\* otherwise with section General and the whole normalized text.  Every stored
\* task has one of the four sections.
C7_SectionAndBody == []C7_SectionsEnumerated /\ [][C7_ClassifyStep]_vars

\* A text of two tokens with a tab and more whitespace than one space, the
\* keyword last, has been stored under Urgent with the text a.
C7_Witness ==
    /\ event.kind = "text"
    /\ Len(Tokens(event.text)) = 2
    /\ Len(event.text) > 3
    /\ "\t" \in {event.text[i] : i \in 1..Len(event.text)}
    /\ Len(tasks) >= 1
    /\ tasks[Len(tasks)].section = "Urgent"
    /\ tasks[Len(tasks)].text = <<"a">>
    /\ LastReply.kind = "added"

C8_EmptyBodyStep ==
    LET toks == Tokens(event'.text)
    IN  HandlesTaskText /\ (toks = <<>> \/ LoneKeyword(toks))
        => /\ tasks' = tasks
           /\ inflight' = inflight
           /\ outbox'[Len(outbox')].kind = "usage"

C8_BodiesNonEmpty == \A i \in 1..Len(tasks) : tasks[i].text # <<>>

\* C8: a text that is only whitespace, or only a section keyword, stores no
\* task and is answered with the usage prompt; every stored task has a
\* non-empty text.
C8_EmptyBodyNoTask == []C8_BodiesNonEmpty /\ [][C8_EmptyBodyStep]_vars

\* A lone keyword between whitespace has been answered with the usage prompt
\* and the table still holds its one task.
C8_Witness ==
    /\ event.kind = "text"
    /\ Tokens(event.text) = <<<<"Tomorrow">>>>
    /\ Len(event.text) = 3
    /\ LastReply.kind = "usage"
    /\ Len(tasks) = 1

\* The step is a run of the 00:00 job.
MidnightFires ==
    /\ event'.kind = "job"
    /\ event'.text = <<"sum-0000">>
    /\ send_midnight_done_summary(event'.chat)

\* The local day that began less than a second ago, if any.
Today == Wall(now) \div DAY
InFirstSecond == Today >= 1 /\ Wall(now) % DAY < SEC

C9_WindowStep ==
    MidnightFires /\ InFirstSecond
    => /\ Len(outbox') = 1
       /\ outbox'[1].kind = "done_summary"
       /\ IsoInstant(outbox'[1].start) = LocalMidnight(Today - 1)
       /\ IsoInstant(outbox'[1].end) = LocalMidnight(Today)
       /\ Wall(IsoInstant(outbox'[1].start)) = (Today - 1) * DAY
       /\ Wall(IsoInstant(outbox'[1].end)) = Today * DAY

\* C9: when the 00:00 job runs less than one second after local midnight of
\* day D+1, the window it hands to the summary starts at local 00:00:00 of day
\* D and ends at local 00:00:00 of day D+1, whatever the offset within the
\* second.
C9_MidnightWindow == [][C9_WindowStep]_vars

\* The 00:00 job of a chat has run in the first second after the midnight that
\* ends the 25-hour day, not on the full second: the chat's first text, which
\* registered the job, was a task created after that midnight.  The task was
\* completed at once and is outside the window.
C9_Witness ==
    /\ event.kind = "job" /\ event.text = <<"sum-0000">>
    /\ Today = 1
    /\ Wall(now) % DAY \in 1..(SEC - 1)
    /\ \A i \in 1..Len(tasks) :
          tasks[i].chat_id = event.chat => Wall(IsoInstant(tasks[i].created_at)) >= DAY
    /\ DoneIds(event.chat) # {}
    /\ Len(outbox) = 1
    /\ outbox[1].kind = "done_summary"
    /\ outbox[1].count = 0
    /\ IsoInstant(outbox[1].end) - IsoInstant(outbox[1].start) = 25 * HOUR

\* The tasks of a chat completed in the window [start, end), the bounds and
\* done_at taken as instants.
DoneInWindow(chat_id, start, end) ==
    {i \in 1..Len(tasks) :
        /\ tasks[i].chat_id = chat_id
        /\ tasks[i].done = 1
        /\ IsoInstant(start) <= IsoInstant(tasks[i].done_at)
        /\ IsoInstant(tasks[i].done_at) < IsoInstant(end)}

\* The rows the summary sent by a step was built from.
SummaryRows == get_tasks_done_in_range(event'.chat, outbox'[1].start, outbox'[1].end)

C11_ListedStep ==
    MidnightFires
    => {SummaryRows[k].id : k \in 1..Len(SummaryRows)}
           = DoneInWindow(event'.chat, outbox'[1].start, outbox'[1].end)

C11_AscendingStep ==
    MidnightFires
    => \A k, l \in 1..Len(SummaryRows) :
           k < l => IsoInstant(SummaryRows[k].done_at) <= IsoInstant(SummaryRows[l].done_at)

C11_LinesStep ==
    MidnightFires
    => /\ \A k, l \in 1..Len(SummaryRows) : SummaryRows[k].id = SummaryRows[l].id => k = l
       /\ outbox'[1].lines
             = [k \in 1..Len(SummaryRows) |-> HtmlEscape(tasks[SummaryRows[k].id].text)]
       /\ outbox'[1].count = Len(outbox'[1].lines)
       /\ outbox'[1].count_line
             = (IF SummaryRows = <<>> THEN "finished_zero" ELSE "finished_n")

\* C11: the summary of a chat for the window [start, end) lists exactly the
\* tasks of the chat that are done with start <= done_at < end, one line per
\* task in ascending order of done_at, its count is the number of lines, and
\* with no such task it has the zero phrasing and no line.
C11_DigestOfWindow ==
    [][C11_ListedStep /\ C11_AscendingStep /\ C11_LinesStep]_vars

\* What the code does list: the tasks whose done_at, as SQLite's datetime()
\* reads it, falls on a second from that of start up to but not including that
\* of end, in the order of these seconds and of the ids within one second.
C11_BySqlSecondStep ==
    MidnightFires
    => /\ {SummaryRows[k].id : k \in 1..Len(SummaryRows)}
             = {i \in 1..Len(tasks) :
                  /\ tasks[i].chat_id = event'.chat /\ tasks[i].done = 1
                  /\ SqlDatetime(outbox'[1].start) <= SqlDatetime(tasks[i].done_at)
                  /\ SqlDatetime(tasks[i].done_at) < SqlDatetime(outbox'[1].end)}
       /\ \A k, l \in 1..Len(SummaryRows) :
             k < l =>
               \/ SqlDatetime(SummaryRows[k].done_at) < SqlDatetime(SummaryRows[l].done_at)
               \/ /\ SqlDatetime(SummaryRows[k].done_at) = SqlDatetime(SummaryRows[l].done_at)
                  /\ SummaryRows[k].id < SummaryRows[l].id

DigestBySqlSecond == [][C11_BySqlSecondStep /\ C11_LinesStep]_vars

C11_Ascending == [][C11_AscendingStep]_vars
C11_Listed == [][C11_ListedStep]_vars

\* The step handles a list command, or runs one of the three jobs.
HandlesList ==
    /\ event' # event \/ outbox' # outbox
    /\ event'.kind = "text"
    /\ is_list_command(normalize_text(event'.text))

RunsJob ==
    /\ event' # event \/ outbox' # outbox
    /\ event'.kind = "job"

\* The digest a job of the given event sends in the current state.
DigestOf(e) ==
    IF e.text = <<"sum-0000">>
    THEN format_done_summary_for_range(e.chat, WallIso(DayStart), WallIso(DayEnd))
    ELSE format_open_tasks_message(e.chat)

C12_ReadOnlyStep ==
    /\ HandlesList => tasks' = tasks /\ inflight' = inflight /\ now' = now
    /\ RunsJob =>
          /\ tasks' = tasks /\ inflight' = inflight /\ now' = now
          /\ jobs' = jobs /\ seen' = seen
          /\ event'.text[1] \in JobNames
          /\ outbox' = <<DigestOf(event')>>

\* C12: handling a list command or running the 09:00, 18:15 or 00:00 job
\* creates no task and changes no field of any task; a job changes nothing
\* but the message it sends, which is the digest of the table and the clock it
\* has left as they were, so that the same job run again sends the same message.
C12_ListAndJobsReadOnly == [][C12_ReadOnlyStep]_vars

\* The 00:00 job has summed up a completed task of a chat that also has an
\* open task.
C12_Witness ==
    /\ event.kind = "job" /\ event.text = <<"sum-0000">>
    /\ Len(outbox) = 1 /\ outbox[1].kind = "done_summary" /\ outbox[1].count = 1
    /\ DoneIds(event.chat) # {}
    /\ OpenIds(event.chat) # {}

\* The (display number, id) pairs of a chat's open list.
Numbering(c) ==
    LET numbered == ordered_open_tasks_with_numbers(c)
    IN  [k \in 1..Len(numbered) |-> <<numbered[k].display_no, numbered[k].id>>]

\* The step handles a message or a job of chat c.
HandledFor(c) ==
    /\ event' # event \/ outbox' # outbox \/ tasks' # tasks
    /\ event'.kind \in {"text", "job"}
    /\ event'.chat = c

C13_ScopedStep ==
    \A a \in Chats :
        HandledFor(a) =>
            /\ Len(tasks') >= Len(tasks)
            /\ \A i \in 1..Len(tasks) : tasks[i].chat_id # a => tasks'[i] = tasks[i]
            /\ \A i \in (Len(tasks) + 1)..Len(tasks') : tasks'[i].chat_id = a

C13_OwnTasksOnly ==
    \A c \in Chats :
        LET numbered == ordered_open_tasks_with_numbers(c)
            rows == get_tasks_done_in_range(c, WallIso(0), WallIso((MaxDay + 1) * DAY))
        IN  /\ \A k \in 1..Len(numbered) : tasks[numbered[k].id].chat_id = c
            /\ {Numbering(c)[k][2] : k \in 1..Len(numbered)} = OpenIds(c)
            /\ \A k \in 1..(Len(numbered) - 1) :
                   KeyLess(SortKey(Row(numbered[k].id)), SortKey(Row(numbered[k + 1].id)))
            /\ \A k \in 1..Len(rows) : tasks[rows[k].id].chat_id = c
            /\ Len(rows) = Cardinality(DoneIds(c))

\* C13: a message or job of chat A changes and adds only tasks of A; the open
\* list and the summary of a chat hold tasks of that chat only, and the display
\* numbering of a chat is the order of its own open tasks, whatever the other
\* chats hold.
C13_ChatScoped == []C13_OwnTasksOnly /\ [][C13_ScopedStep]_vars

\* Chat 2 has completed its task while chat 1 holds an open one.
C13_Witness ==
    /\ event.kind = "text" /\ event.chat = 2
    /\ outbox # <<>>
    /\ LastReply.kind = "marked_done"
    /\ DoneIds(2) # {}
    /\ OpenIds(1) # {}

\* No handler is between resolving a display number and its UPDATE.
Handled == inflight = <<>> /\ event.kind \in {"text", "job"}

\* The replies of on_text and the messages of the jobs.
OnTextReplies == {"open_tasks", "no_open_tasks", "marked_done", "not_found", "usage", "added"}
JobMessages == {"open_tasks", "no_open_tasks", "done_summary"}

\* C14 as stated: every handled message and every run of a job has sent
\* exactly one message, the first message of a chat included.
C14_OneReplyPerEvent == Handled => Len(outbox) = 1

C14_RepliesOfEvent ==
    Handled =>
        /\ event.kind = "job" => Len(outbox) = 1 /\ outbox[1].kind \in JobMessages
        /\ event.kind = "text" =>
              /\ Len(outbox) \in {1, 2}
              /\ LastReply.kind \in OnTextReplies
              /\ Len(outbox) = 2 => outbox[1].kind = "welcome"

C14_WelcomeStep ==
    \A c \in Chats :
        /\ event'.kind = "text" /\ event'.chat = c
        /\ Len(inflight') >= Len(inflight)
        /\ event' # event \/ outbox' # outbox \/ tasks' # tasks \/ inflight' # inflight
        => IF c \in seen
           THEN \A k \in 1..Len(outbox') : outbox'[k].kind # "welcome"
           ELSE outbox' # <<>> /\ outbox'[1].kind = "welcome"

\* C14, amended: every run of a job sends exactly one message; every message
\* gets exactly one reply of on_text, and the first message of a chat since the
\* start gets the welcome of on_first_message before it, two messages in all.
C14_OneReplyAfterWelcome == []C14_RepliesOfEvent /\ [][C14_WelcomeStep]_vars

\* The first message of chat 2, after chat 1 has added a task, has been
\* answered with the welcome and the reply.
C14_Witness ==
    /\ Handled
    /\ event.kind = "text" /\ event.chat = 2
    /\ seen = {1, 2}
    /\ OpenIds(1) # {}
    /\ Len(outbox) = 2
    /\ outbox[1].kind = "welcome"
    /\ outbox[2].kind = "added"

\* html.escape, character by character.
Escaped(a) ==
    CASE a = "&" -> "&amp;"
      [] a = "<" -> "&lt;"
      [] a = ">" -> "&gt;"
      [] a = "\"" -> "&quot;"
      [] a = "'" -> "&#x27;"
      [] OTHER -> a

\* The items of an open-list message under the header of a section.
ItemsUnder(msg, section) ==
    LET k == CHOOSE g \in 1..Len(msg.groups) : msg.groups[g].title = section
    IN  msg.groups[k].items

\* msg is the open list of chat c as C15 describes it.
RoundTrip(msg, c) ==
    IF OpenIds(c) = {}
    THEN msg.kind = "no_open_tasks"
    ELSE /\ msg.kind = "open_tasks"
         /\ [g \in 1..Len(msg.groups) |-> msg.groups[g].title]
               = <<"Urgent", "Today", "Tomorrow", "General">>
         /\ \A g \in 1..Len(msg.groups) :
               msg.groups[g].placeholder <=> msg.groups[g].items = <<>>
         /\ \A i \in OpenIds(c) :
               /\ \E k \in 1..Len(ItemsUnder(msg, tasks[i].section)) :
                     ItemsUnder(msg, tasks[i].section)[k].text
                         = [j \in 1..Len(tasks[i].text) |-> Escaped(tasks[i].text[j])]
               /\ Cardinality({<<g, k>> \in (1..4) \X (1..Len(tasks)) :
                       /\ k <= Len(msg.groups[g].items)
                       /\ \E n \in 1..Len(Numbering(c)) :
                             /\ Numbering(c)[n][2] = i
                             /\ msg.groups[g].items[k].display_no = Numbering(c)[n][1]}) = 1
         /\ Cardinality({<<g, k>> \in (1..4) \X (1..Len(tasks)) :
                 k <= Len(msg.groups[g].items)}) = Cardinality(OpenIds(c))

\* The last event is a list command or a reminder job, handled.
ListSent ==
    /\ Handled
    /\ \/ event.kind = "text" /\ is_list_command(normalize_text(event.text))
       \/ event.kind = "job" /\ event.text \in {<<"rem-0900">>, <<"rem-1815">>}

\* C15: the open list of a chat, and every one sent, is the nothing-pending
\* message exactly when the chat has no open task; otherwise it has the four
\* headers in the order Urgent, Today, Tomorrow, General, a placeholder under
\* each header without a task, and every open task of the chat exactly once,
\* under the header of its section with its escaped text; a completed task is
\* not in it.
C15_RoundTrip ==
    /\ \A c \in Chats : RoundTrip(format_open_tasks_message(c), c)
    /\ ListSent => RoundTrip(LastReply, event.chat)

\* A list sent to a chat after one of its two tasks was completed: the task
\* sent as a& Urgent is under Urgent as a&amp;.
C15_Witness ==
    /\ ListSent
    /\ DoneIds(event.chat) # {}
    /\ LastReply.kind = "open_tasks"
    /\ ItemsUnder(LastReply, "Urgent") = <<[red |-> FALSE, display_no |-> 1, text |-> <<"a", "&amp;">>]>>
    /\ ItemsUnder(LastReply, "General") = <<>>

\* The step is the UPDATE of a call in flight and the call reports success.
Completes(k) ==
    /\ k \in 1..Len(inflight)
    /\ inflight' = Without(inflight, k)
    /\ event' = TextEvent(inflight[k].chat, inflight[k].text)
    /\ outbox' # <<>>
    /\ outbox'[Len(outbox')].kind = "marked_done"

\* s without its k-th element.
Dropped(s, k) == SubSeq(s, 1, k - 1) \o SubSeq(s, k + 1, Len(s))

\* The ids of the open tasks of chat c in a table, by rank of section, then
\* created_at as stored, then id.
OrderOf(table, c) ==
    LET ids == {i \in 1..Len(table) : table[i].chat_id = c /\ table[i].done = 0}
        Before(i, j) ==
            \/ ClaimedRank(table[i].section) < ClaimedRank(table[j].section)
            \/ /\ table[i].section = table[j].section
               /\ IsoLess(table[i].created_at, table[j].created_at)
            \/ /\ table[i].section = table[j].section
               /\ table[i].created_at = table[j].created_at
               /\ i < j
    IN  CHOOSE f \in [1..Cardinality(ids) -> ids] :
            \A a, b \in 1..Cardinality(ids) : a < b => Before(f[a], f[b])

\* The display numbers are the positions in that order.
C16_NumberedInOrder ==
    \A c \in Chats :
        Numbering(c) = [k \in 1..Len(OrderOf(tasks, c)) |-> <<k, OrderOf(tasks, c)[k]>>]

C16_CompletionStep ==
    \A k \in 1..Len(inflight) :
        Completes(k) =>
            LET c == inflight[k].chat
                n == inflight[k].display_no
                before == OrderOf(tasks, c)
                after == OrderOf(tasks', c)
            IN  /\ n \in 1..Len(before)
                /\ Len(tasks') = Len(tasks)
                /\ \A i \in 1..Len(tasks) :
                      IF i = before[n]
                      THEN /\ tasks[i].done = 0
                           /\ tasks'[i].done = 1
                           /\ tasks'[i] = [tasks[i] EXCEPT !.done = 1, !.done_at = tasks'[i].done_at]
                      ELSE tasks'[i] = tasks[i]
                /\ Len(after) = Len(before) - 1
                /\ \A m \in 1..Len(after) : after[m] # before[n]
                /\ after = Dropped(before, n)
                /\ \A m \in 1..Len(before) :
                      /\ m < n => after[m] = before[m]
                      /\ m > n => after[m - 1] = before[m]

\* C16: a completion of display number k that reports success marks done the
\* k-th task of the chat's order and changes nothing else; the chat then has
\* one open task less, the task is not in the list, the others keep their
\* order, those below k their number, and those above k move down by one.
C16_CompletesExactlyKth == []C16_NumberedInOrder /\ [][C16_CompletionStep]_vars

\* Number 2 of three open tasks of chat 1 has been completed.
C16_Witness ==
    /\ event.kind = "text" /\ event.chat = 1
    /\ event.text = <<"finish", " ", "2">>
    /\ outbox # <<>> /\ LastReply.kind = "marked_done"
    /\ Cardinality(OpenIds(1)) = 2
    /\ Cardinality(DoneIds(1)) = 1

C17_LifecycleStep ==
    /\ Len(tasks') \in {Len(tasks), Len(tasks) + 1}
    /\ \A i \in 1..Len(tasks) :
          /\ tasks'[i].chat_id = tasks[i].chat_id
          /\ tasks'[i].section = tasks[i].section
          /\ tasks'[i].text = tasks[i].text
          /\ tasks'[i].created_at = tasks[i].created_at
          /\ tasks[i].done = 1 => tasks'[i].done = 1 /\ tasks'[i].done_at = tasks[i].done_at
    /\ Len(tasks') = Len(tasks) + 1 =>
          /\ tasks'[Len(tasks')].done = 0
          /\ \A i \in 1..Len(tasks) : i < Len(tasks')

C17_DoneNotListed ==
    \A c \in Chats :
        \A k \in 1..Len(Numbering(c)) : tasks[Numbering(c)[k][2]].done = 0

\* C17: no step deletes a task or changes its id, chat, section, text or
\* created_at; a done task stays done with the done_at it has; a done task is
\* in no open list; a new task gets an id above every id given before.
C17_MonotonicLifecycle == []C17_DoneNotListed /\ [][C17_LifecycleStep]_vars

\* Task 1 was completed, the clock moved on, the other chat added task 2, and
\* a second completion of number 1 in the chat of task 1 found nothing.
C17_Witness ==
    /\ Len(tasks) = 2
    /\ tasks[1].done = 1
    /\ IsoInstant(tasks[1].done_at) < now
    /\ tasks[2].done = 0
    /\ tasks[2].chat_id # tasks[1].chat_id
    /\ IsoInstant(tasks[2].created_at) = now
    /\ event.kind = "text" /\ event.chat = tasks[1].chat_id
    /\ parse_done_command(normalize_text(event.text)) = 1
    /\ inflight = <<>>
    /\ outbox # <<>> /\ LastReply.kind = "not_found"

\* The time that has passed since task i was created.
Age(i) == now - IsoInstant(tasks[i].created_at)

\* C18: an open task is shown with the aging marker exactly when
\* now - created_at >= 7 days: at exactly 7 days it is marked, before that it
\* is not; the marker does not change the display number of the task.
C18_MarkedFromSevenDays ==
    \A c \in Chats :
        LET msg == format_open_tasks_message(c)
        IN  msg.kind = "open_tasks" =>
                \A g \in 1..Len(msg.groups) : \A k \in 1..Len(msg.groups[g].items) :
                    LET item == msg.groups[g].items[k]
                    IN  /\ item.display_no \in 1..Len(Numbering(c))
                        /\ item.red <=> Age(Numbering(c)[item.display_no][2]) >= 7 * DAY

\* What the code does mark: the tasks whose created_at, read on the local
\* wall clock, is at least 7 days behind the wall clock reading of now.
MarkedByWallClock ==
    \A c \in Chats :
        LET msg == format_open_tasks_message(c)
        IN  msg.kind = "open_tasks" =>
                \A g \in 1..Len(msg.groups) : \A k \in 1..Len(msg.groups[g].items) :
                    LET item == msg.groups[g].items[k]
                        id == Numbering(c)[item.display_no][2]
                    IN  /\ item.display_no \in 1..Len(Numbering(c))
                        /\ item.red <=>
                              Wall(now) - Wall(IsoInstant(tasks[id].created_at)) >= 7 * DAY

\* The tasks of a chat completed on local day d: from its midnight on, before
\* the next one.
DoneOnDay(chat_id, d) ==
    {i \in 1..Len(tasks) :
        /\ tasks[i].chat_id = chat_id
        /\ tasks[i].done = 1
        /\ LocalMidnight(d) <= IsoInstant(tasks[i].done_at)
        /\ IsoInstant(tasks[i].done_at) < LocalMidnight(d + 1)}

C19_PartitionStep ==
    MidnightFires /\ InFirstSecond
    => {SummaryRows[k].id : k \in 1..Len(SummaryRows)} = DoneOnDay(event'.chat, Today - 1)

\* C19: the digest fired at a midnight lists exactly the tasks of the chat
\* whose done_at lies in the day that ends at that midnight, so a completed
\* task is listed by the first midnight after its done_at and by no other; a
\* task completed at 00:00:00 exactly belongs to the day that begins then.
C19_MidnightPartition == [][C19_PartitionStep]_vars

\* The tasks of a chat whose done_at, as SQLite reads it, is a second of local
\* day d.
DoneOnSqlDay(chat_id, d) ==
    {i \in 1..Len(tasks) :
        /\ tasks[i].chat_id = chat_id
        /\ tasks[i].done = 1
        /\ LocalMidnight(d) \div SEC <= SqlDatetime(tasks[i].done_at)
        /\ SqlDatetime(tasks[i].done_at) < LocalMidnight(d + 1) \div SEC}

PartitionBySqlSecondStep ==
    MidnightFires /\ InFirstSecond
    => {SummaryRows[k].id : k \in 1..Len(SummaryRows)} = DoneOnSqlDay(event'.chat, Today - 1)

\* What the digests do partition: the completions by the second SQLite reads
\* their done_at as.
PartitionBySqlSecond == [][PartitionBySqlSecondStep]_vars
====
